---- MODULE Spec2Model ----
(***************************************************************************)
(* Model of the LLM routing core: core/router.py (Router), core/cache.py   *)
(* (QueryCache over a diskcache.Cache kept in ./cache_data) and            *)
(* core/classifier.py (QueryClassifier).                                   *)
(*                                                                         *)
(* Text is a sequence of one-character strings.  Money, time and           *)
(* confidence are integers: cost units, milliseconds, percent.             *)
(***************************************************************************)
EXTENDS Integers, Sequences, FiniteSets, TLC

VARIABLES
    config,      \* the configuration dict handed to Router.__init__
    now,         \* wall clock, seconds
    cache,       \* rows of the diskcache store in ./cache_data: key -> row
    lru,         \* keys of the store, least recently accessed first
    metrics,     \* Router.metrics of every Router object
    is_trained,  \* QueryClassifier.is_trained of every Router's classifier
    classes,     \* classes_ of its fitted LogisticRegression
    seq,         \* number of API calls made so far
    last,        \* what the last API call did and returned
    asked,       \* history: the route calls each Router object has served
    sel,         \* the last application of Router._select_model on its own
    rbc,         \* the last application of QueryClassifier.classify on its own
    statistics,  \* the store's Settings rows 'statistics', 'hits', 'misses'
    threads,     \* the route_query calls running in parallel on Router r1
    held         \* a dict returned by get_metrics that its caller has kept

vars == <<config, now, cache, lru, metrics, is_trained, classes, seq, last,
          asked, sel, rbc, statistics, threads, held>>

----------------------------------------------------------------------------
(* Bounds *)

MaxCalls == 4        \* API calls in one behaviour
MaxTime == 2         \* last clock value
MaxLen == 3          \* longest text of the classifier harness

\* the Router objects: two, so that one can be seen from the other
Routers == {"r1", "r2"}

----------------------------------------------------------------------------
(* Text *)

Alphabet == {"a", "A", "b", "B"}

\* str.lower() on one character
LowerChar(c) == CASE c = "A" -> "a" [] c = "B" -> "b" [] OTHER -> c

\* str.lower()
Lower(q) == [i \in 1..Len(q) |-> LowerChar(q[i])]

\* kw in s   (Python substring test; the empty text is in every text)
Contains(kw, s) ==
    \E i \in 0..(Len(s) - Len(kw)) : SubSeq(s, i + 1, i + Len(kw)) = kw

\* all texts of length 0..n over the alphabet
Texts(n) == UNION {[1..k -> Alphabet] : k \in 0..n}

\* the queries routed in the router specification
Queries == {<<"a">>, <<"A">>, <<"a", "a">>}

----------------------------------------------------------------------------
(* Configuration *)

\* model_mapping of Router._select_model
model_mapping ==
    [l \in {"simple", "medium", "advanced"} |->
        CASE l = "simple" -> "ollama-simple"
          [] l = "medium" -> "ollama-medium"
          [] l = "advanced" -> "gpt2-large"]

\* default of config.get('fallback_model', ...)
DefaultFallback == "ollama-simple"

AllModels ==
    [m \in {"ollama-simple", "ollama-medium", "gpt2-large"} |->
        [cost |-> CASE m = "ollama-simple" -> 1
                    [] m = "ollama-medium" -> 2
                    [] m = "gpt2-large" -> 5]]

\* A threshold of the table: a number, or a value that does not compare
\* with a float (num = FALSE).
Num(n) == [num |-> TRUE, v |-> n]
NotNum == [num |-> FALSE, v |-> 0]

\* An optional dict key is a set: {} when the key is missing, {v} otherwise.
BaseClassification ==
    [simple_keywords |-> {<<"a">>},
     advanced_keywords |-> {<<"b">>},
     query_length_thresholds |-> [simple |-> {2}, advanced |-> {2}]]

BaseThresholds ==
    [l \in {"simple", "medium", "advanced"} |->
        CASE l = "simple" -> Num(60)
          [] l = "medium" -> Num(85)
          [] l = "advanced" -> Num(80)]

BaseRouting ==
    [confidence_thresholds |-> {BaseThresholds},
     fallback_model |-> {"ollama-medium"}]

BaseConfig ==
    [models |-> AllModels,
     routing |-> BaseRouting,
     classification |-> BaseClassification,
     caching |-> [ttl_seconds |-> 1, max_size |-> 1]]

\* configurations of the router specification
RouterConfigs == {BaseConfig}

----------------------------------------------------------------------------
(* core/cache.py: QueryCache over diskcache.Cache *)

\* variant: the key is taken from the text as given, without lower()
hash_case_sensitive(query) == query

\* hashlib.md5(query.lower().encode('utf-8')).hexdigest(); the digest is
\* taken as collision free, so the key is the lowercased text itself
_get_query_hash(query) == Lower(query)

\* diskcache.Cache.get(key): the row's value, unless the row carries an
\* expire_time that has passed; {} is None
StoreGet(key) ==
    IF key \in DOMAIN cache
       /\ \A e \in cache[key].expire_time : e > now
    THEN {cache[key].value}
    ELSE {}

\* QueryCache.get
QueryCache_get(query) == StoreGet(_get_query_hash(query))

\* variant: eviction_policy 'least-recently-stored', a get stamps nothing
Touch_stored(order, key) == order

\* the access order after a get: under the least-recently-used policy a
\* successful get stamps the row's access_time
Touch(order, key) ==
    IF key \in DOMAIN cache
    THEN SelectSeq(order, LAMBDA k : k # key) \o <<key>>
    ELSE order

\* variant: the dict is stored as it was given
clean_result_all(result) == result

\* clean_result of QueryCache.set: the eight declared fields and no other
clean_result(result) ==
    [query |-> result.query,
     model_used |-> result.model_used,
     response |-> result.response,
     speed_ms |-> result.speed_ms,
     accuracy |-> result.accuracy,
     cost |-> result.cost,
     classification |-> result.classification,
     confidence |-> result.confidence]

\* the row written by self.cache[query_hash] = clean_result: diskcache's
\* __setitem__ passes expire=None, so expire_time is NULL ({})
NewRow(result) ==
    [value |-> clean_result(result), store_time |-> now, expire_time |-> {}]

\* rows one diskcache set may cull (diskcache's cull_limit, scaled down)
CullLimit == 1

Min(a, b) == IF a < b THEN a ELSE b

\* keys removed by the cull that ends a diskcache set: when the store is
\* over its size budget (max_size, counted in entries here), the cull_limit
\* least recently accessed rows go
Culled(keys, order) ==
    IF Cardinality(keys) > config.caching.max_size
    THEN {order[i] : i \in 1..Min(CullLimit, Len(order))}
    ELSE {}

\* variant: a set on a stored key keeps the stored response
QueryCache_set_fieldwise(query, result) ==
    LET key == Lower(query)
        row == [value |-> [query |-> result.query,
                           model_used |-> result.model_used,
                           response |-> IF key \in DOMAIN cache
                                        THEN cache[key].value.response
                                        ELSE result.response,
                           speed_ms |-> result.speed_ms,
                           accuracy |-> result.accuracy,
                           cost |-> result.cost,
                           classification |-> result.classification,
                           confidence |-> result.confidence],
                store_time |-> now, expire_time |-> {}]
    IN [rows |-> (key :> row), order |-> <<key>>, culled |-> {}]

\* QueryCache.set: the rows and the access order after the call
QueryCache_set(query, result) ==
    LET key == _get_query_hash(query)
        rows == [k \in DOMAIN cache \cup {key} |->
                    IF k = key THEN NewRow(result) ELSE cache[k]]
        order == SelectSeq(lru, LAMBDA k : k # key) \o <<key>>
        gone == Culled(DOMAIN rows, order)
    IN [rows |-> [k \in DOMAIN rows \ gone |-> rows[k]],
        order |-> SelectSeq(order, LAMBDA k : k \notin gone),
        culled |-> {[key |-> k, store_time |-> rows[k].store_time] : k \in gone}]

\* a store without rows
EmptyStore == [k \in {} |-> 0]

\* variant: clear leaves the rows where they are
QueryCache_clear_kept == cache

\* QueryCache.clear: the rows after the call (diskcache.Cache.clear)
QueryCache_clear == EmptyStore

\* the Settings rows of a new store: statistics are off, nothing counted
NoStatistics == [enabled |-> FALSE, hits |-> 0, misses |-> 0]

\* diskcache.Cache.get counts a hit or a miss once statistics are enabled
CountGet(st, hit) ==
    IF ~st.enabled THEN st
    ELSE IF hit THEN [st EXCEPT !.hits = @ + 1]
                ELSE [st EXCEPT !.misses = @ + 1]

\* the int 0 of the else branches, as a fraction
Zero == [num |-> 0, den |-> 1]

\* a / b if b > 0 else 0: Python's true division, kept as a fraction
Quotient(a, b) == IF b > 0 THEN [num |-> a, den |-> b] ELSE Zero

\* the storage operations QueryCache.get_stats performs
StorageOps == {"stats", "volume", "len"}

\* QueryCache.get_stats while the storage operations in `fails` raise.
\* cache.stats() returns (hits, misses) and, by its default enable=True,
\* switches statistics on.  An exception in the try block leads to the
\* except branch, which calls volume() and len() again outside any try.
\* volume() is counted in entries here, as max_size is.
QueryCache_get_stats(fails) ==
    LET hits == statistics.hits
        misses == statistics.misses
        total == hits + misses
        hit_rate == Quotient(hits, total)
        size == Cardinality(DOMAIN cache)
        items == Cardinality(DOMAIN cache)
        after == IF "stats" \in fails THEN statistics
                 ELSE [statistics EXCEPT !.enabled = TRUE]
    IN IF {"volume", "len"} \cap fails # {}
       THEN [raised |-> TRUE, value |-> {}, statistics |-> after]
       ELSE IF "stats" \in fails
       THEN [raised |-> FALSE,
             value |-> {[size |-> size, items |-> items, hit_rate |-> Zero]},
             statistics |-> after]
       ELSE [raised |-> FALSE,
             value |-> {[size |-> size, items |-> items, hit_rate |-> hit_rate]},
             statistics |-> after]

----------------------------------------------------------------------------
(* core/classifier.py: QueryClassifier *)

\* defaults of length_thresholds.get('simple', 80) and .get('advanced', 200)
DefaultSimpleLen == 80
DefaultAdvancedLen == 200

\* dict.get(key, default) on an optional key
GetOr(opt, default) == IF opt = {} THEN default ELSE CHOOSE v \in opt : TRUE

Result(label, confidence) == [label |-> label, confidence |-> confidence]

\* len(query) < length_thresholds.get('simple', 80)
IsShort(length, threshold) == length < threshold

\* variant: len(query) >= the advanced threshold
IsLong_inclusive(length, threshold) == length >= threshold

\* len(query) > length_thresholds.get('advanced', 200)
IsLong(length, threshold) == length > threshold

\* QueryClassifier._rule_based_classification
_rule_based_classification(query) ==
    LET query_lower == Lower(query)
        cfg == config.classification
        has_simple == \E kw \in cfg.simple_keywords : Contains(kw, query_lower)
        has_advanced == \E kw \in cfg.advanced_keywords : Contains(kw, query_lower)
        length_thresholds == cfg.query_length_thresholds
        is_short == IsShort(Len(query), GetOr(length_thresholds.simple, DefaultSimpleLen))
        is_long == IsLong(Len(query), GetOr(length_thresholds.advanced, DefaultAdvancedLen))
    IN IF has_advanced \/ is_long
       THEN Result("advanced", IF has_advanced THEN 85 ELSE 70)
       ELSE IF has_simple /\ is_short
            THEN Result("simple", IF has_simple THEN 90 ELSE 75)
            ELSE Result("medium", 80)

\* max(predict_proba) of a fitted model over k classes is at least 1/k;
\* the values the model draws from, in percent
TrainedConfidences == {55, 95}

\* QueryClassifier.classify: the results the call can return.  The fitted
\* sklearn model is outside the repository: it predicts one of its
\* classes_, with its own maximum probability as confidence.
classify(r, query) ==
    IF is_trained[r]
    THEN {Result(l, c) : l \in classes[r], c \in TrainedConfidences}
    ELSE {_rule_based_classification(query)}

----------------------------------------------------------------------------
(* core/router.py: Router *)

\* variant: confidence > thresholds[classification]
MeetsThreshold_strict(confidence, threshold) == confidence > threshold

\* confidence >= thresholds[classification]
MeetsThreshold(confidence, threshold) == confidence >= threshold

\* Router._select_model: error is "KeyError" when config['routing'] has no
\* 'confidence_thresholds' (read outside the try block), else "none"
_select_model(classification, confidence) ==
    LET cfg == config.routing
        fallback_model == GetOr(cfg.fallback_model, DefaultFallback)
    IN IF cfg.confidence_thresholds = {}
       THEN [error |-> "KeyError", model |-> ""]
       ELSE LET thresholds == CHOOSE t \in cfg.confidence_thresholds : TRUE
            IN IF classification \notin DOMAIN thresholds
               THEN [error |-> "none", model |-> fallback_model]
               ELSE IF ~thresholds[classification].num
                    \* the comparison raises TypeError, caught by the try block
                    THEN [error |-> "none", model |-> fallback_model]
                    ELSE IF MeetsThreshold(confidence, thresholds[classification].v)
                         THEN [error |-> "none",
                               model |-> IF classification \in DOMAIN model_mapping
                                         THEN model_mapping[classification]
                                         ELSE fallback_model]
                         ELSE [error |-> "none", model |-> fallback_model]

\* Router.__init__: self.metrics
NewMetrics ==
    [total_queries |-> 0,
     cache_hits |-> 0,
     model_usage |-> [m \in {} |-> 0],
     total_cost |-> 0,
     total_time |-> 0]

\* variant: the latency is not added to total_time
update_metrics_without_time(m, model, speed, cost) ==
    LET usage == IF model \in DOMAIN m.model_usage
                 THEN m.model_usage
                 ELSE [x \in DOMAIN m.model_usage \cup {model} |->
                          IF x = model THEN 0 ELSE m.model_usage[x]]
    IN [m EXCEPT !.model_usage = [usage EXCEPT ![model] = @ + 1],
                 !.total_cost = @ + cost]

\* Router._update_metrics
_update_metrics(m, model, speed, cost) ==
    LET usage == IF model \in DOMAIN m.model_usage
                 THEN m.model_usage
                 ELSE [x \in DOMAIN m.model_usage \cup {model} |->
                          IF x = model THEN 0 ELSE m.model_usage[x]]
    IN [m EXCEPT !.model_usage = [usage EXCEPT ![model] = @ + 1],
                 !.total_cost = @ + cost,
                 !.total_time = @ + speed]

\* a force_model argument: None, or a string
None == [given |-> FALSE, id |-> ""]
Some(id) == [given |-> TRUE, id |-> id]

\* variant: the force_model argument is not looked at
Truthy_ignored(force_model) == FALSE

\* `if force_model:` -- None and the empty string are both falsy
Truthy(force_model) == force_model.given /\ force_model.id # ""

\* force_model arguments tried: None, the empty string, a configured
\* model, an unknown id
Forces == {None, Some(""), Some("gpt2-large"), Some("nope")}

\* what ModelManager.generate_response can do: return (response, speed,
\* accuracy) or raise
BackendOutcomes ==
    {[ok |-> TRUE, response |-> "r1", speed_ms |-> 1, accuracy |-> 90],
     [ok |-> TRUE, response |-> "r2", speed_ms |-> 2, accuracy |-> 50],
     [ok |-> FALSE, response |-> "", speed_ms |-> 0, accuracy |-> 0]}

\* variant: a provider error is swallowed and a stand-in answer returned
generate_response_swallowed(model_config, query, b) ==
    IF b.ok THEN b
    ELSE [ok |-> TRUE, response |-> "Error occurred", speed_ms |-> 300, accuracy |-> 85]

\* ModelManager.generate_response as the Router sees it: the provider's
\* outcome b, an exception being re-raised
generate_response(model_config, query, b) == b

\* self.metrics['total_queries'] += 1
CountQuery(m) == [m EXCEPT !.total_queries = @ + 1]

\* variant: a hit is also charged one millisecond
CountHit_timed(m) == [m EXCEPT !.cache_hits = @ + 1, !.total_time = @ + 1]

\* self.metrics['cache_hits'] += 1
CountHit(m) == [m EXCEPT !.cache_hits = @ + 1]

\* variant: the averages are taken over every query
NonHits_all(m) == m.total_queries

\* self.metrics['total_queries'] - self.metrics['cache_hits']
NonHits(m) == m.total_queries - m.cache_hits

\* the dict Router.get_metrics returns
metrics_snapshot(m, cache_stats) ==
    [total_queries |-> m.total_queries,
     cache_hits |-> m.cache_hits,
     model_usage |-> m.model_usage,
     total_cost |-> m.total_cost,
     total_time |-> m.total_time,
     cache_stats |-> cache_stats,
     cache_hit_rate |-> Quotient(m.cache_hits, m.total_queries),
     avg_cost_per_query |-> Quotient(m.total_cost, NonHits(m)),
     avg_time_per_query |-> Quotient(m.total_time, NonHits(m))]

\* RoutingResult(from_cache=..., **data)
RoutingResult(from_cache, data) ==
    [query |-> data.query,
     model_used |-> data.model_used,
     response |-> data.response,
     speed_ms |-> data.speed_ms,
     accuracy |-> data.accuracy,
     cost |-> data.cost,
     from_cache |-> from_cache,
     classification |-> data.classification,
     confidence |-> data.confidence]

\* variant: a model without configuration runs on an empty one, at no cost
model_config_or_empty(model) ==
    IF model \in DOMAIN config.models THEN {config.models[model]}
    ELSE {[cost |-> 0]}

\* self.config['models'][chosen_model]: the model's configuration, {} when
\* the lookup raises KeyError
model_config(model) ==
    IF model \in DOMAIN config.models THEN {config.models[model]} ELSE {}

\* variant: a forced call reports no cost
forced_result_unpriced(query, force_model, out, cost) ==
    [query |-> query,
     model_used |-> force_model,
     response |-> out.response,
     speed_ms |-> out.speed_ms,
     accuracy |-> out.accuracy,
     cost |-> 0,
     from_cache |-> FALSE,
     classification |-> "forced",
     confidence |-> 100]

\* the RoutingResult of the force_model branch
forced_result(query, force_model, out, cost) ==
    [query |-> query,
     model_used |-> force_model,
     response |-> out.response,
     speed_ms |-> out.speed_ms,
     accuracy |-> out.accuracy,
     cost |-> cost,
     from_cache |-> FALSE,
     classification |-> "forced",
     confidence |-> 100]

\* The record of an API call: its arguments, how it ended ("ok" or the
\* exception raised), the value returned ({} when none), the backend
\* invocations made (model id and whether it returned), the classifier and
\* selector results ({} when not called), the QueryCache calls made, the
\* rows the store culled during the call (key and store_time), and the
\* storage operations that raised during it.
Call(op, r, query, force, outcome, result, backend, classified, selected, gets, sets) ==
    [op |-> op, router |-> r, query |-> query, force |-> force,
     outcome |-> outcome, result |-> result, backend |-> backend,
     classified |-> classified, selected |-> selected,
     gets |-> gets, sets |-> sets, culled |-> {}, fails |-> {}]

NoCall == Call("none", "", <<>>, None, "ok", {}, <<>>, {}, {}, 0, 0)

Invoked(model, b) == <<[model |-> model, ok |-> b.ok]>>

\* History of a Router object: the cache keys of its route calls, as long as
\* every one of them had no force_model, returned, and asked a text that no
\* earlier one had asked in any casing; plain is FALSE from then on.
NoHistory == [plain |-> TRUE, keys |-> {}]

Asked(h, query, force, outcome) ==
    IF h.plain /\ ~force.given /\ outcome = "ok" /\ Lower(query) \notin h.keys
    THEN [plain |-> TRUE, keys |-> h.keys \cup {Lower(query)}]
    ELSE [plain |-> FALSE, keys |-> {}]

----------------------------------------------------------------------------
(* Router.route_query, one action per path through the method *)

\* force_model is truthy and not in config['models']: ValueError
RouteForcedUnknown(r, query, force) ==
    /\ seq < MaxCalls
    /\ Truthy(force)
    /\ force.id \notin DOMAIN config.models
    /\ metrics' = [metrics EXCEPT ![r] = CountQuery(@)]
    /\ last' = Call("route", r, query, force, "ValueError", {}, <<>>, {}, {}, 0, 0)
    /\ seq' = seq + 1
    /\ asked' = [asked EXCEPT ![r] = Asked(@, query, force, last'.outcome)]
    /\ UNCHANGED <<config, now, cache, lru, is_trained, classes, sel, rbc, statistics, threads, held>>

\* force_model is truthy and configured: the backend is called directly
RouteForced(r, query, force, b) ==
    /\ seq < MaxCalls
    /\ Truthy(force)
    /\ force.id \in DOMAIN config.models
    /\ LET out == generate_response(config.models[force.id], query, b)
           cost == config.models[force.id].cost
       IN IF out.ok
          THEN /\ metrics' = [metrics EXCEPT ![r] =
                                 _update_metrics(CountQuery(@), force.id, out.speed_ms, cost)]
               /\ last' = Call("route", r, query, force, "ok",
                               {forced_result(query, force.id, out, cost)},
                               Invoked(force.id, b), {}, {}, 0, 0)
          ELSE /\ metrics' = [metrics EXCEPT ![r] = CountQuery(@)]
               /\ last' = Call("route", r, query, force, "GenerationError", {},
                               Invoked(force.id, b), {}, {}, 0, 0)
    /\ seq' = seq + 1
    /\ asked' = [asked EXCEPT ![r] = Asked(@, query, force, last'.outcome)]
    /\ UNCHANGED <<config, now, cache, lru, is_trained, classes, sel, rbc, statistics, threads, held>>

\* no force_model, and the cache holds the query
RouteHit(r, query, force) ==
    /\ seq < MaxCalls
    /\ ~Truthy(force)
    /\ QueryCache_get(query) # {}
    /\ LET cached_result == CHOOSE v \in QueryCache_get(query) : TRUE
       IN /\ metrics' = [metrics EXCEPT ![r] = CountHit(CountQuery(@))]
          /\ last' = Call("route", r, query, force, "ok",
                          {RoutingResult(TRUE, cached_result)}, <<>>, {}, {}, 1, 0)
    /\ lru' = Touch(lru, _get_query_hash(query))
    /\ statistics' = CountGet(statistics, TRUE)
    /\ seq' = seq + 1
    /\ asked' = [asked EXCEPT ![r] = Asked(@, query, force, last'.outcome)]
    /\ UNCHANGED <<config, now, cache, is_trained, classes, sel, rbc, threads, held>>

\* no force_model, and the cache does not hold the query: classify, select,
\* generate, record, store
RouteMiss(r, query, force, b, c) ==
    /\ seq < MaxCalls
    /\ ~Truthy(force)
    /\ QueryCache_get(query) = {}
    /\ c \in classify(r, query)
    /\ LET chosen == _select_model(c.label, c.confidence)
           chosen_model == chosen.model
       IN IF chosen.error # "none"
          THEN /\ metrics' = [metrics EXCEPT ![r] = CountQuery(@)]
               /\ last' = Call("route", r, query, force, chosen.error, {},
                               <<>>, {c}, {}, 1, 0)
               /\ UNCHANGED <<cache, lru>>
          ELSE IF model_config(chosen_model) = {}
          THEN /\ metrics' = [metrics EXCEPT ![r] = CountQuery(@)]
               /\ last' = Call("route", r, query, force, "KeyError", {},
                               <<>>, {c}, {chosen_model}, 1, 0)
               /\ UNCHANGED <<cache, lru>>
          ELSE LET model_cfg == CHOOSE mc \in model_config(chosen_model) : TRUE
                   out == generate_response(model_cfg, query, b)
                   cost == model_cfg.cost
                   result_data == [query |-> query,
                                   model_used |-> chosen_model,
                                   response |-> out.response,
                                   speed_ms |-> out.speed_ms,
                                   accuracy |-> out.accuracy,
                                   cost |-> cost,
                                   classification |-> c.label,
                                   confidence |-> c.confidence]
                   stored == QueryCache_set(query, result_data)
               IN IF out.ok
                  THEN /\ metrics' = [metrics EXCEPT ![r] =
                                         _update_metrics(CountQuery(@), chosen_model,
                                                         out.speed_ms, cost)]
                       /\ cache' = stored.rows
                       /\ lru' = stored.order
                       /\ last' = [Call("route", r, query, force, "ok",
                                        {RoutingResult(FALSE, result_data)},
                                        Invoked(chosen_model, b), {c}, {chosen_model}, 1, 1)
                                   EXCEPT !.culled = stored.culled]
                  ELSE /\ metrics' = [metrics EXCEPT ![r] = CountQuery(@)]
                       /\ last' = Call("route", r, query, force, "GenerationError", {},
                                       Invoked(chosen_model, b), {c}, {chosen_model}, 1, 0)
                       /\ UNCHANGED <<cache, lru>>
    /\ statistics' = CountGet(statistics, FALSE)
    /\ seq' = seq + 1
    /\ asked' = [asked EXCEPT ![r] = Asked(@, query, force, last'.outcome)]
    /\ UNCHANGED <<config, now, is_trained, classes, sel, rbc, threads, held>>

----------------------------------------------------------------------------
(* The other operations *)

\* Router.__init__: a new Router object takes the place of r.  Its metrics
\* and classifier are new; its QueryCache opens ./cache_data, whatever that
\* directory holds.
Router_init(r) ==
    /\ seq < MaxCalls
    /\ metrics' = [metrics EXCEPT ![r] = NewMetrics]
    /\ is_trained' = [is_trained EXCEPT ![r] = FALSE]
    /\ classes' = [classes EXCEPT ![r] = {}]
    /\ last' = Call("__init__", r, <<>>, None, "ok", {}, <<>>, {}, {}, 0, 0)
    /\ seq' = seq + 1
    /\ asked' = [asked EXCEPT ![r] = NoHistory]
    /\ UNCHANGED <<config, now, cache, lru, sel, rbc, statistics, threads, held>>

\* Router.clear_cache
clear_cache(r) ==
    /\ seq < MaxCalls
    /\ cache' = QueryCache_clear
    /\ lru' = <<>>
    /\ last' = Call("clear_cache", r, <<>>, None, "ok", {}, <<>>, {}, {}, 0, 0)
    /\ seq' = seq + 1
    /\ UNCHANGED <<config, now, metrics, is_trained, classes, asked, sel, rbc, statistics, threads, held>>

\* Router.get_metrics, the storage answering: the statistics of the store
\* and the counters with the three derived rates
get_metrics_call(r) ==
    /\ seq < MaxCalls
    /\ LET cache_stats == QueryCache_get_stats({})
       IN /\ statistics' = cache_stats.statistics
          /\ last' = Call("get_metrics", r, <<>>, None, "ok",
                          {metrics_snapshot(metrics[r], cache_stats.value)},
                          <<>>, {}, {}, 0, 0)
    /\ seq' = seq + 1
    /\ UNCHANGED <<config, now, cache, lru, metrics, is_trained, classes, asked,
                   sel, rbc, threads>>

\* Router.get_metrics, the caller dropping the dict after use
get_metrics(r) ==
    /\ get_metrics_call(r)
    /\ UNCHANGED held

\* Router.get_metrics, the caller keeping the dict it got: the first one
\* kept is followed
get_metrics_kept(r) ==
    /\ ~held.taken
    /\ get_metrics_call(r)
    /\ held' = [taken |-> TRUE, router |-> r, returned |-> last'.result]

\* QueryCache.get_stats, called on the cache object while the storage
\* operations in `fails` raise
get_stats(fails) ==
    /\ seq < MaxCalls
    /\ LET out == QueryCache_get_stats(fails)
       IN /\ statistics' = out.statistics
          /\ last' = [Call("get_stats", "", <<>>, None,
                           IF out.raised THEN "StorageError" ELSE "ok",
                           out.value, <<>>, {}, {}, 0, 0)
                      EXCEPT !.fails = fails]
    /\ seq' = seq + 1
    /\ UNCHANGED <<config, now, cache, lru, metrics, is_trained, classes, asked,
                   sel, rbc, threads, held>>

\* label sets of the training data tried: no data, one class (sklearn's fit
\* raises), two classes
TrainingLabels == {{}, {"simple"}, {"simple", "expert"}}

\* QueryClassifier.train, on training data whose labels are `labels`
train(r, labels) ==
    /\ seq < MaxCalls
    /\ IF Cardinality(labels) >= 2
       THEN /\ is_trained' = [is_trained EXCEPT ![r] = TRUE]
            /\ classes' = [classes EXCEPT ![r] = labels]
            /\ last' = Call("train", r, <<>>, None, "ok", {}, <<>>, {}, {}, 0, 0)
       ELSE /\ UNCHANGED <<is_trained, classes>>
            /\ last' = Call("train", r, <<>>, None,
                            IF labels = {} THEN "ok" ELSE "ValueError",
                            {}, <<>>, {}, {}, 0, 0)
    /\ seq' = seq + 1
    /\ UNCHANGED <<config, now, cache, lru, metrics, asked, sel, rbc, statistics, threads, held>>

\* a second passes
Tick ==
    /\ now < MaxTime
    /\ now' = now + 1
    /\ UNCHANGED <<config, cache, lru, metrics, is_trained, classes, seq, last,
                   asked, sel, rbc, statistics, threads, held>>

----------------------------------------------------------------------------
(* The router specification *)

NoSel == [applied |-> FALSE, label |-> "", confidence |-> 0,
          out |-> [error |-> "none", model |-> ""]]
NoRbc == [applied |-> FALSE, query |-> <<>>, trained |-> FALSE, out |-> Result("", 0)]

\* no dict of get_metrics has been kept
NoSnapshot == [taken |-> FALSE, router |-> "", returned |-> {}]

\* the threads that call route_query on Router r1 at the same time
Threads == {"t1", "t2"}

\* a thread that has not called yet.  pc is where the thread stands in
\* route_query; tmp is the value it has read and not yet written back;
\* data is the cache entry it has read or built; wrote numbers its
\* cache write (0: none).
Idle == [pc |-> "idle", query |-> <<>>, tmp |-> 0, model |-> "", data |-> {},
         invoked |-> FALSE, outcome |-> "", result |-> {}, wrote |-> 0]

NoThreads == [t \in Threads |-> Idle]

Init ==
    /\ config \in RouterConfigs
    /\ now = 0
    /\ cache = EmptyStore
    /\ lru = <<>>
    /\ metrics = [r \in Routers |-> NewMetrics]
    /\ is_trained = [r \in Routers |-> FALSE]
    /\ classes = [r \in Routers |-> {}]
    /\ seq = 0
    /\ last = NoCall
    /\ asked = [r \in Routers |-> NoHistory]
    /\ sel = NoSel
    /\ rbc = NoRbc
    /\ statistics = NoStatistics
    /\ threads = NoThreads
    /\ held = NoSnapshot

\* the operations on one Router object
Next ==
    \/ \E q \in Queries, f \in Forces : RouteForcedUnknown("r1", q, f)
    \/ \E q \in Queries, f \in Forces, b \in BackendOutcomes :
          RouteForced("r1", q, f, b)
    \/ \E q \in Queries, f \in Forces : RouteHit("r1", q, f)
    \/ \E q \in Queries, f \in Forces, b \in BackendOutcomes :
          \E c \in classify("r1", q) : RouteMiss("r1", q, f, b, c)
    \/ Router_init("r1")
    \/ clear_cache("r1")
    \/ get_metrics("r1")
    \/ \E labels \in TrainingLabels : train("r1", labels)

Spec == Init /\ [][Next]_vars

----------------------------------------------------------------------------
(* The cache over time: routing without force_model while the clock runs *)

NextTTL ==
    \/ \E q \in Queries : RouteHit("r1", q, None)
    \/ \E q \in Queries, b \in BackendOutcomes :
          \E c \in classify("r1", q) : RouteMiss("r1", q, None, b, c)
    \/ clear_cache("r1")
    \/ Tick

SpecTTL == Init /\ [][NextTTL]_vars

----------------------------------------------------------------------------
(* Router._select_model on its own, over labels, confidences and routing
   configurations *)

SelectLabels == {"simple", "medium", "advanced", "expert", "forced"}

SelectConfidences == {0, 59, 60, 61, 79, 80, 84, 85, 86, 100}

\* routing sections: the base one; no threshold for medium; no fallback
\* key; a threshold that is not a number; no threshold table
SelectRoutings ==
    {BaseRouting,
     [confidence_thresholds |-> {[l \in {"simple", "advanced"} |-> BaseThresholds[l]]},
      fallback_model |-> {"gpt2-large"}],
     [confidence_thresholds |-> {BaseThresholds}, fallback_model |-> {}],
     [confidence_thresholds |-> {[BaseThresholds EXCEPT !["simple"] = NotNum]},
      fallback_model |-> {"ollama-medium"}],
     [confidence_thresholds |-> {}, fallback_model |-> {"ollama-medium"}]}

InitSelect ==
    /\ config \in {[BaseConfig EXCEPT !.routing = rt] : rt \in SelectRoutings}
    /\ now = 0
    /\ cache = EmptyStore
    /\ lru = <<>>
    /\ metrics = [r \in Routers |-> NewMetrics]
    /\ is_trained = [r \in Routers |-> FALSE]
    /\ classes = [r \in Routers |-> {}]
    /\ seq = 0
    /\ last = NoCall
    /\ asked = [r \in Routers |-> NoHistory]
    /\ sel = NoSel
    /\ rbc = NoRbc
    /\ statistics = NoStatistics
    /\ threads = NoThreads
    /\ held = NoSnapshot

ApplySelect(label, confidence) ==
    /\ sel' = [applied |-> TRUE, label |-> label, confidence |-> confidence,
               out |-> _select_model(label, confidence)]
    /\ UNCHANGED <<config, now, cache, lru, metrics, is_trained, classes, seq, last,
                   asked, rbc, statistics, threads, held>>

NextSelect == \E l \in SelectLabels, c \in SelectConfidences : ApplySelect(l, c)

SpecSelect == InitSelect /\ [][NextSelect]_vars

----------------------------------------------------------------------------
(* QueryClassifier.classify on its own, on a classifier that was never
   trained, over texts and classification configurations *)

\* classification sections: the base one; the default length thresholds;
\* a short text can be long; an advanced keyword written with a capital;
\* overlapping keywords of two letters; no keywords
ClassifyConfigs ==
    {BaseClassification,
     [BaseClassification EXCEPT !.query_length_thresholds = [simple |-> {}, advanced |-> {}]],
     [BaseClassification EXCEPT !.query_length_thresholds = [simple |-> {3}, advanced |-> {1}]],
     [BaseClassification EXCEPT !.advanced_keywords = {<<"B">>}],
     [simple_keywords |-> {<<"a", "b">>, <<"b">>},
      advanced_keywords |-> {<<"b", "a">>},
      query_length_thresholds |-> [simple |-> {3}, advanced |-> {2}]],
     [simple_keywords |-> {},
      advanced_keywords |-> {},
      query_length_thresholds |-> [simple |-> {2}, advanced |-> {2}]]}

InitClassify ==
    /\ config \in {[BaseConfig EXCEPT !.classification = cl] : cl \in ClassifyConfigs}
    /\ now = 0
    /\ cache = EmptyStore
    /\ lru = <<>>
    /\ metrics = [r \in Routers |-> NewMetrics]
    /\ is_trained = [r \in Routers |-> FALSE]
    /\ classes = [r \in Routers |-> {}]
    /\ seq = 0
    /\ last = NoCall
    /\ asked = [r \in Routers |-> NoHistory]
    /\ sel = NoSel
    /\ rbc = NoRbc
    /\ statistics = NoStatistics
    /\ threads = NoThreads
    /\ held = NoSnapshot

ApplyClassify(r, query, c) ==
    /\ c \in classify(r, query)
    /\ rbc' = [applied |-> TRUE, query |-> query, trained |-> is_trained[r], out |-> c]
    /\ UNCHANGED <<config, now, cache, lru, metrics, is_trained, classes, seq, last,
                   asked, sel, statistics, threads, held>>

NextClassify ==
    \E q \in Texts(MaxLen) : \E c \in classify("r1", q) : ApplyClassify("r1", q, c)

SpecClassify == InitClassify /\ [][NextClassify]_vars

----------------------------------------------------------------------------
(* The classifier with training: train and classify on one QueryClassifier *)

TrainedConfigs ==
    {BaseClassification,
     [simple_keywords |-> {<<"a">>},
      advanced_keywords |-> {<<"B">>},
      query_length_thresholds |-> [simple |-> {3}, advanced |-> {2}]]}

InitTrained ==
    /\ config \in {[BaseConfig EXCEPT !.classification = cl] : cl \in TrainedConfigs}
    /\ now = 0
    /\ cache = EmptyStore
    /\ lru = <<>>
    /\ metrics = [r \in Routers |-> NewMetrics]
    /\ is_trained = [r \in Routers |-> FALSE]
    /\ classes = [r \in Routers |-> {}]
    /\ seq = 0
    /\ last = NoCall
    /\ asked = [r \in Routers |-> NoHistory]
    /\ sel = NoSel
    /\ rbc = NoRbc
    /\ statistics = NoStatistics
    /\ threads = NoThreads
    /\ held = NoSnapshot

NextTrained ==
    \/ \E q \in Texts(MaxLen - 1) : \E c \in classify("r1", q) :
          ApplyClassify("r1", q, c)
    \/ \E labels \in TrainingLabels : train("r1", labels)

SpecTrained == InitTrained /\ [][NextTrained]_vars

----------------------------------------------------------------------------
(* Eviction: a store with room for two entries, three keys, the clock *)

LRUConfig == [BaseConfig EXCEPT !.caching.max_size = 2]

LRUQueries == {<<"a">>, <<"b">>, <<"a", "a">>}

InitLRU ==
    /\ config = LRUConfig
    /\ now = 0
    /\ cache = EmptyStore
    /\ lru = <<>>
    /\ metrics = [r \in Routers |-> NewMetrics]
    /\ is_trained = [r \in Routers |-> FALSE]
    /\ classes = [r \in Routers |-> {}]
    /\ seq = 0
    /\ last = NoCall
    /\ asked = [r \in Routers |-> NoHistory]
    /\ sel = NoSel
    /\ rbc = NoRbc
    /\ statistics = NoStatistics
    /\ threads = NoThreads
    /\ held = NoSnapshot

NextLRU ==
    \/ \E q \in LRUQueries : RouteHit("r1", q, None)
    \/ \E q \in LRUQueries, b \in BackendOutcomes :
          \E c \in classify("r1", q) : RouteMiss("r1", q, None, b, c)
    \/ Tick

SpecLRU == InitLRU /\ [][NextLRU]_vars

----------------------------------------------------------------------------
(* Parallel route_query calls on one Router.  Nothing in Router takes a   *)
(* lock: `d[k] += 1` is a read and a later write, and another thread can  *)
(* run in between.  The QueryCache calls are single diskcache             *)
(* transactions.  Every call is made without force_model.                 *)

\* the thread moves to pc with some fields set
Goto(t, pc, fields) ==
    [threads EXCEPT ![t] = [f \in DOMAIN @ |->
        IF f = "pc" THEN pc
        ELSE IF f \in DOMAIN fields THEN fields[f] ELSE @[f]]]

\* what a thread step never touches
ThreadFrame ==
    UNCHANGED <<config, now, is_trained, classes, last, asked, sel, rbc, held>>

\* thread t calls route_query(query)
T_call(t, query) ==
    /\ threads[t].pc = "idle"
    /\ threads' = Goto(t, "total_read", [query |-> query])
    /\ ThreadFrame
    /\ UNCHANGED <<cache, lru, metrics, seq, statistics>>

\* self.metrics['total_queries'] += 1: the read
T_total_read(t) ==
    /\ threads[t].pc = "total_read"
    /\ threads' = Goto(t, "total_write", [tmp |-> metrics["r1"].total_queries])
    /\ ThreadFrame
    /\ UNCHANGED <<cache, lru, metrics, seq, statistics>>

\* self.metrics['total_queries'] += 1: the write
T_total_write(t) ==
    /\ threads[t].pc = "total_write"
    /\ metrics' = [metrics EXCEPT !["r1"].total_queries = threads[t].tmp + 1]
    /\ threads' = Goto(t, "get", [tmp |-> 0])
    /\ ThreadFrame
    /\ UNCHANGED <<cache, lru, seq, statistics>>

\* cached_result = self.cache.get(query)
T_get(t) ==
    /\ threads[t].pc = "get"
    /\ LET found == QueryCache_get(threads[t].query)
       IN /\ threads' = IF found # {}
                        THEN Goto(t, "hits_read", [data |-> found])
                        ELSE Goto(t, "generate", [data |-> {}])
          /\ lru' = Touch(lru, _get_query_hash(threads[t].query))
          /\ statistics' = CountGet(statistics, found # {})
    /\ ThreadFrame
    /\ UNCHANGED <<cache, metrics, seq>>

\* self.metrics['cache_hits'] += 1: the read
T_hits_read(t) ==
    /\ threads[t].pc = "hits_read"
    /\ threads' = Goto(t, "hits_write", [tmp |-> metrics["r1"].cache_hits])
    /\ ThreadFrame
    /\ UNCHANGED <<cache, lru, metrics, seq, statistics>>

\* self.metrics['cache_hits'] += 1: the write, and the return
T_hits_write(t) ==
    /\ threads[t].pc = "hits_write"
    /\ metrics' = [metrics EXCEPT !["r1"].cache_hits = threads[t].tmp + 1]
    /\ threads' = Goto(t, "done",
                       [tmp |-> 0, outcome |-> "ok",
                        result |-> {RoutingResult(TRUE, d) : d \in threads[t].data}])
    /\ ThreadFrame
    /\ UNCHANGED <<cache, lru, seq, statistics>>

\* classify, _select_model, generate_response and the cost: no shared
\* state is written
T_generate(t, b, c) ==
    /\ threads[t].pc = "generate"
    /\ c \in classify("r1", threads[t].query)
    /\ LET query == threads[t].query
           chosen == _select_model(c.label, c.confidence)
           chosen_model == chosen.model
       IN IF chosen.error # "none"
          THEN threads' = Goto(t, "done", [outcome |-> chosen.error])
          ELSE IF model_config(chosen_model) = {}
          THEN threads' = Goto(t, "done", [outcome |-> "KeyError"])
          ELSE LET model_cfg == CHOOSE mc \in model_config(chosen_model) : TRUE
                   out == generate_response(model_cfg, query, b)
                   cost == model_cfg.cost
                   result_data == [query |-> query,
                                   model_used |-> chosen_model,
                                   response |-> out.response,
                                   speed_ms |-> out.speed_ms,
                                   accuracy |-> out.accuracy,
                                   cost |-> cost,
                                   classification |-> c.label,
                                   confidence |-> c.confidence]
               IN IF out.ok
                  THEN threads' = Goto(t, "usage_check",
                                       [model |-> chosen_model, invoked |-> TRUE,
                                        data |-> {result_data}])
                  ELSE threads' = Goto(t, "done", [outcome |-> "GenerationError"])
    /\ ThreadFrame
    /\ UNCHANGED <<cache, lru, metrics, seq, statistics>>

\* _update_metrics: if model not in self.metrics['model_usage']
T_usage_check(t) ==
    /\ threads[t].pc = "usage_check"
    /\ threads' = IF threads[t].model \in DOMAIN metrics["r1"].model_usage
                  THEN Goto(t, "usage_read", <<>>)
                  ELSE Goto(t, "usage_zero", <<>>)
    /\ ThreadFrame
    /\ UNCHANGED <<cache, lru, metrics, seq, statistics>>

\* self.metrics['model_usage'][model] = 0
T_usage_zero(t) ==
    /\ threads[t].pc = "usage_zero"
    /\ LET usage == metrics["r1"].model_usage
           model == threads[t].model
       IN metrics' = [metrics EXCEPT !["r1"].model_usage =
                         [x \in DOMAIN usage \cup {model} |->
                             IF x = model THEN 0 ELSE usage[x]]]
    /\ threads' = Goto(t, "usage_read", <<>>)
    /\ ThreadFrame
    /\ UNCHANGED <<cache, lru, seq, statistics>>

\* self.metrics['model_usage'][model] += 1: the read
T_usage_read(t) ==
    /\ threads[t].pc = "usage_read"
    /\ threads' = Goto(t, "usage_write",
                       [tmp |-> metrics["r1"].model_usage[threads[t].model]])
    /\ ThreadFrame
    /\ UNCHANGED <<cache, lru, metrics, seq, statistics>>

\* self.metrics['model_usage'][model] += 1: the write
T_usage_write(t) ==
    /\ threads[t].pc = "usage_write"
    /\ metrics' = [metrics EXCEPT !["r1"].model_usage[threads[t].model] =
                      threads[t].tmp + 1]
    /\ threads' = Goto(t, "cost_read", [tmp |-> 0])
    /\ ThreadFrame
    /\ UNCHANGED <<cache, lru, seq, statistics>>

\* self.metrics['total_cost'] += cost: the read
T_cost_read(t) ==
    /\ threads[t].pc = "cost_read"
    /\ threads' = Goto(t, "cost_write", [tmp |-> metrics["r1"].total_cost])
    /\ ThreadFrame
    /\ UNCHANGED <<cache, lru, metrics, seq, statistics>>

\* self.metrics['total_cost'] += cost: the write
T_cost_write(t) ==
    /\ threads[t].pc = "cost_write"
    /\ \E d \in threads[t].data :
          metrics' = [metrics EXCEPT !["r1"].total_cost = threads[t].tmp + d.cost]
    /\ threads' = Goto(t, "time_read", [tmp |-> 0])
    /\ ThreadFrame
    /\ UNCHANGED <<cache, lru, seq, statistics>>

\* self.metrics['total_time'] += speed: the read
T_time_read(t) ==
    /\ threads[t].pc = "time_read"
    /\ threads' = Goto(t, "time_write", [tmp |-> metrics["r1"].total_time])
    /\ ThreadFrame
    /\ UNCHANGED <<cache, lru, metrics, seq, statistics>>

\* self.metrics['total_time'] += speed: the write
T_time_write(t) ==
    /\ threads[t].pc = "time_write"
    /\ \E d \in threads[t].data :
          metrics' = [metrics EXCEPT !["r1"].total_time = threads[t].tmp + d.speed_ms]
    /\ threads' = Goto(t, "set", [tmp |-> 0])
    /\ ThreadFrame
    /\ UNCHANGED <<cache, lru, seq, statistics>>

\* self.cache.set(query, result_data), and the return
T_set(t) ==
    /\ threads[t].pc = "set"
    /\ \E d \in threads[t].data :
          LET stored == QueryCache_set(threads[t].query, d)
          IN /\ cache' = stored.rows
             /\ lru' = stored.order
             /\ threads' = Goto(t, "done",
                                [outcome |-> "ok", wrote |-> seq + 1,
                                 result |-> {RoutingResult(FALSE, d)}])
    /\ seq' = seq + 1
    /\ ThreadFrame
    /\ UNCHANGED <<metrics, statistics>>

InitParallel ==
    /\ config \in RouterConfigs
    /\ now = 0
    /\ cache = EmptyStore
    /\ lru = <<>>
    /\ metrics = [r \in Routers |-> NewMetrics]
    /\ is_trained = [r \in Routers |-> FALSE]
    /\ classes = [r \in Routers |-> {}]
    /\ seq = 0
    /\ last = NoCall
    /\ asked = [r \in Routers |-> NoHistory]
    /\ sel = NoSel
    /\ rbc = NoRbc
    /\ statistics = NoStatistics
    /\ threads = NoThreads
    /\ held = NoSnapshot

NextParallel ==
    \E t \in Threads :
       \/ \E q \in Queries : T_call(t, q)
       \/ T_total_read(t)
       \/ T_total_write(t)
       \/ T_get(t)
       \/ T_hits_read(t)
       \/ T_hits_write(t)
       \/ \E b \in BackendOutcomes :
             \E c \in classify("r1", threads[t].query) : T_generate(t, b, c)
       \/ T_usage_check(t)
       \/ T_usage_zero(t)
       \/ T_usage_read(t)
       \/ T_usage_write(t)
       \/ T_cost_read(t)
       \/ T_cost_write(t)
       \/ T_time_read(t)
       \/ T_time_write(t)
       \/ T_set(t)

SpecParallel == InitParallel /\ [][NextParallel]_vars

----------------------------------------------------------------------------
(* The cache statistics: routing, and get_stats on a storage that may fail *)

NextStats ==
    \/ \E q \in Queries : RouteHit("r1", q, None)
    \/ \E q \in Queries, b \in BackendOutcomes :
          \E c \in classify("r1", q) : RouteMiss("r1", q, None, b, c)
    \/ \E fails \in SUBSET StorageOps : get_stats(fails)

SpecStats == Init /\ [][NextStats]_vars

----------------------------------------------------------------------------
(* The QueryCache on its own: set with dicts that carry more than the     *)
(* eight fields, get, and the Router's own reads and writes               *)

\* what callers hand to QueryCache.set for a query: the eight fields as
\* result_data has them, and the same with from_cache as a ninth
SetResults(query) ==
    LET data == {[query |-> query, model_used |-> "ollama-simple",
                  response |-> b.response, speed_ms |-> b.speed_ms,
                  accuracy |-> b.accuracy,
                  cost |-> config.models["ollama-simple"].cost,
                  classification |-> "simple", confidence |-> 90] :
                    b \in {o \in BackendOutcomes : o.ok}}
    IN data \cup {RoutingResult(fc, d) : fc \in BOOLEAN, d \in data}

\* QueryCache.set(query, result)
cache_set(query, result) ==
    /\ seq < MaxCalls
    /\ LET stored == QueryCache_set(query, result)
       IN /\ cache' = stored.rows
          /\ lru' = stored.order
          /\ last' = [Call("set", "", query, None, "ok", {result},
                           <<>>, {}, {}, 0, 1)
                      EXCEPT !.culled = stored.culled]
    /\ seq' = seq + 1
    /\ UNCHANGED <<config, now, metrics, is_trained, classes, asked, sel, rbc,
                   statistics, threads, held>>

\* QueryCache.get(query)
cache_get(query) ==
    /\ seq < MaxCalls
    /\ last' = Call("get", "", query, None, "ok", QueryCache_get(query),
                    <<>>, {}, {}, 1, 0)
    /\ lru' = Touch(lru, _get_query_hash(query))
    /\ statistics' = CountGet(statistics, QueryCache_get(query) # {})
    /\ seq' = seq + 1
    /\ UNCHANGED <<config, now, cache, metrics, is_trained, classes, asked, sel,
                   rbc, threads, held>>

NextCache ==
    \/ \E q \in Queries : \E result \in SetResults(q) : cache_set(q, result)
    \/ \E q \in Queries : cache_get(q)
    \/ \E q \in Queries : RouteHit("r1", q, None)
    \/ \E q \in Queries, b \in BackendOutcomes :
          \E c \in classify("r1", q) : RouteMiss("r1", q, None, b, c)

SpecCache == Init /\ [][NextCache]_vars

----------------------------------------------------------------------------
(* A model registry that lacks models the selector can choose *)

RegistryConfigs ==
    {[BaseConfig EXCEPT !.models = [m \in {"gpt2-large"} |-> AllModels[m]]],
     [BaseConfig EXCEPT !.models =
         [m \in {"ollama-medium", "gpt2-large"} |-> AllModels[m]]]}

InitRegistry ==
    /\ config \in RegistryConfigs
    /\ now = 0
    /\ cache = EmptyStore
    /\ lru = <<>>
    /\ metrics = [r \in Routers |-> NewMetrics]
    /\ is_trained = [r \in Routers |-> FALSE]
    /\ classes = [r \in Routers |-> {}]
    /\ seq = 0
    /\ last = NoCall
    /\ asked = [r \in Routers |-> NoHistory]
    /\ sel = NoSel
    /\ rbc = NoRbc
    /\ statistics = NoStatistics
    /\ threads = NoThreads
    /\ held = NoSnapshot

NextRegistry ==
    \/ \E q \in LRUQueries : RouteHit("r1", q, None)
    \/ \E q \in LRUQueries, b \in BackendOutcomes :
          \E c \in classify("r1", q) : RouteMiss("r1", q, None, b, c)
    \/ clear_cache("r1")

SpecRegistry == InitRegistry /\ [][NextRegistry]_vars

----------------------------------------------------------------------------
(* Parallel route_query calls on a Router constructed over a store that   *)
(* already holds an entry: ./cache_data outlives the Router that wrote it *)

\* the store after an earlier route_query('a')
WarmStore ==
    <<"a">> :> [value |-> [query |-> <<"a">>,
                           model_used |-> "ollama-simple",
                           response |-> "r1",
                           speed_ms |-> 1,
                           accuracy |-> 90,
                           cost |-> AllModels["ollama-simple"].cost,
                           classification |-> "simple",
                           confidence |-> 90],
                store_time |-> 0,
                expire_time |-> {}]

InitWarm ==
    /\ config \in RouterConfigs
    /\ now = 0
    /\ cache = WarmStore
    /\ lru = <<<<"a">>>>
    /\ metrics = [r \in Routers |-> NewMetrics]
    /\ is_trained = [r \in Routers |-> FALSE]
    /\ classes = [r \in Routers |-> {}]
    /\ seq = 0
    /\ last = NoCall
    /\ asked = [r \in Routers |-> NoHistory]
    /\ sel = NoSel
    /\ rbc = NoRbc
    /\ statistics = NoStatistics
    /\ threads = NoThreads
    /\ held = NoSnapshot

SpecParallelWarm == InitWarm /\ [][NextParallel]_vars

----------------------------------------------------------------------------
(* A dict of get_metrics kept by its caller while the Router goes on.     *)
(* {**self.metrics, ...} copies the top level of self.metrics: the ints   *)
(* by value, the model_usage dict by reference.                           *)

\* the kept dict as its holder reads it now: model_usage is the Router's
\* own dict
Observed(h) ==
    {[s EXCEPT !.model_usage = metrics[h.router].model_usage] : s \in h.returned}

NextSnapshot ==
    \/ \E q \in Queries, f \in Forces, b \in BackendOutcomes :
          RouteForced("r1", q, f, b)
    \/ \E q \in Queries : RouteHit("r1", q, None)
    \/ \E q \in Queries, b \in BackendOutcomes :
          \E c \in classify("r1", q) : RouteMiss("r1", q, None, b, c)
    \/ clear_cache("r1")
    \/ get_metrics("r1")
    \/ get_metrics_kept("r1")

SpecSnapshot == Init /\ [][NextSnapshot]_vars

----------------------------------------------------------------------------
(* Two Router objects with the same configuration in one directory *)

\* whether route_query(query) on Router r would find its query in the
\* cache: the QueryCache of every Router opens the directory ./cache_data
WouldHit(r, query) == QueryCache_get(query) # {}

NextRouters ==
    \E r \in Routers :
       \/ \E q \in Queries : RouteHit(r, q, None)
       \/ \E q \in Queries, b \in BackendOutcomes :
             \E c \in classify(r, q) : RouteMiss(r, q, None, b, c)
       \/ clear_cache(r)
       \/ Router_init(r)

SpecRouters == Init /\ [][NextRouters]_vars

----------------------------------------------------------------------------
(* Claims *)

\* this step is a route_query call
RouteStep == seq' = seq + 1 /\ last'.op = "route"

\* the store's entries: key -> value
Entries(rows) == [k \in DOMAIN rows |-> rows[k].value]

RECURSIVE SumOver(_, _)
SumOver(f, keys) ==
    IF keys = {} THEN 0
    ELSE LET k == CHOOSE x \in keys : TRUE IN f[k] + SumOver(f, keys \ {k})

\* sum(model_usage.values())
SumUsage(m) == SumOver(m.model_usage, DOMAIN m.model_usage)

\* model_usage.get(model, 0)
UsageOf(m, model) == IF model \in DOMAIN m.model_usage THEN m.model_usage[model] ELSE 0

\* C1 -- TTL expiry: an entry stored for q at time T and not stored again
\* is absent from QueryCache.get(q) at every time >= T + ttl_seconds.
C1_ExpiredEntryAbsent ==
    \A q \in Queries :
        LET key == _get_query_hash(q)
        IN (key \in DOMAIN cache
            /\ now >= cache[key].store_time + config.caching.ttl_seconds)
           => QueryCache_get(q) = {}

C3_CaseVariantHits ==
    [][(/\ RouteStep
        /\ ~last'.force.given
        /\ \E k \in DOMAIN cache : Lower(cache[k].value.query) = Lower(last'.query))
       => /\ last'.outcome = "ok"
          /\ last'.result # {}
          /\ \A res \in last'.result : res.from_cache
          /\ last'.backend = <<>>
      ]_vars

\* a call was answered from an entry stored under another casing
C3_Witness ==
    /\ last.op = "route"
    /\ ~last.force.given
    /\ last.backend = <<>>
    /\ \E res \in last.result : res.from_cache /\ res.query # last.query

\* C4 -- Cache hit frame: a route call without force_model that finds its
\* query in the cache adds 1 to total_queries and 1 to cache_hits, calls
\* neither classifier nor selector nor backend, and leaves total_cost,
\* total_time, model_usage and the cache entries unchanged.
C4_HitFrame ==
    [][(RouteStep /\ ~last'.force.given /\ QueryCache_get(last'.query) # {})
       => LET r == last'.router
          IN /\ metrics'[r].total_queries = metrics[r].total_queries + 1
             /\ metrics'[r].cache_hits = metrics[r].cache_hits + 1
             /\ metrics'[r].total_cost = metrics[r].total_cost
             /\ metrics'[r].total_time = metrics[r].total_time
             /\ metrics'[r].model_usage = metrics[r].model_usage
             /\ Entries(cache') = Entries(cache)
             /\ last'.classified = {}
             /\ last'.selected = {}
             /\ last'.backend = <<>>
      ]_vars

\* a hit was served by a Router that had paid for a miss before
C4_Witness ==
    /\ last.op = "route"
    /\ ~last.force.given
    /\ \E res \in last.result : res.from_cache
    /\ metrics[last.router].cache_hits >= 1
    /\ metrics[last.router].total_cost >= 1

\* C5 -- Cache miss effects: a route call without force_model that misses
\* the cache and whose backend call returns invokes the backend once, with
\* the selected model; adds 1 to that model's usage, its configured cost to
\* total_cost and the returned speed to total_time; stores an entry for the
\* query; and returns from_cache = FALSE with the selector's model and the
\* classifier's label and confidence.
C5_MissEffects ==
    [][(/\ RouteStep
        /\ ~last'.force.given
        /\ QueryCache_get(last'.query) = {}
        /\ last'.outcome = "ok")
       => LET r == last'.router
              q == last'.query
          IN /\ Cardinality(last'.classified) = 1
             /\ Cardinality(last'.selected) = 1
             /\ Cardinality(last'.result) = 1
             /\ \A c \in last'.classified, m \in last'.selected, res \in last'.result :
                   /\ c \in classify(r, q)
                   /\ m = _select_model(c.label, c.confidence).model
                   /\ last'.backend = <<[model |-> m, ok |-> TRUE]>>
                   /\ UsageOf(metrics'[r], m) = UsageOf(metrics[r], m) + 1
                   /\ SumUsage(metrics'[r]) = SumUsage(metrics[r]) + 1
                   /\ metrics'[r].total_cost = metrics[r].total_cost + config.models[m].cost
                   /\ metrics'[r].total_time = metrics[r].total_time + res.speed_ms
                   /\ _get_query_hash(q) \in DOMAIN cache'
                   /\ RoutingResult(FALSE, cache'[_get_query_hash(q)].value) = res
                   /\ res.from_cache = FALSE
                   /\ res.query = q
                   /\ res.model_used = m
                   /\ res.cost = config.models[m].cost
                   /\ res.classification = c.label
                   /\ res.confidence = c.confidence
      ]_vars

\* a miss was served by a Router that had served a call before
C5_Witness ==
    /\ last.op = "route"
    /\ ~last.force.given
    /\ last.outcome = "ok"
    /\ last.sets = 1
    /\ \E res \in last.result : ~res.from_cache
    /\ metrics[last.router].total_queries >= 2

\* C6 -- Backend failure: when the backend invocation of a route call,
\* forced or not, fails, the backend was invoked once, the error reaches
\* the caller, no RoutingResult is returned and the store is as before.
C6_BackendFailure ==
    [][(RouteStep /\ \E i \in 1..Len(last'.backend) : ~last'.backend[i].ok)
       => /\ Len(last'.backend) = 1
          /\ last'.outcome = "GenerationError"
          /\ last'.result = {}
          /\ last'.sets = 0
          /\ cache' = cache
      ]_vars

\* a backend call failed in a call without force_model, the store not empty
C6_Witness ==
    /\ last.op = "route"
    /\ ~last.force.given
    /\ last.outcome = "GenerationError"
    /\ last.backend # <<>>
    /\ DOMAIN cache # {}

\* C7 -- Unknown forced model: a route call given a force_model (any
\* string, the empty one included) that is no configured model id fails
\* with a configuration error, without a backend call or a cache write.
C7_UnknownForcedFails ==
    (/\ last.op = "route"
     /\ last.force.given
     /\ last.force.id \notin DOMAIN config.models)
    => /\ last.outcome = "ValueError"
       /\ last.backend = <<>>
       /\ last.sets = 0

\* C8 -- Metrics consistency: on a Router object whose N route calls since
\* construction all had no force_model, returned, and asked pairwise
\* distinct case-folded texts, total_queries = N, cache_hits = 0 and the
\* model_usage counts sum to N.
C8_MetricsConsistency ==
    \A r \in Routers :
        asked[r].plain
        => LET N == Cardinality(asked[r].keys)
           IN /\ metrics[r].total_queries = N
              /\ metrics[r].cache_hits = 0
              /\ SumUsage(metrics[r]) = N

\* the selector's configuration is well formed: a threshold table of numbers
WellFormedRouting ==
    /\ config.routing.confidence_thresholds # {}
    /\ \A t \in config.routing.confidence_thresholds : \A l \in DOMAIN t : t[l].num

\* the label has a threshold and the confidence reaches it
ReachesThreshold(label, confidence) ==
    \E t \in config.routing.confidence_thresholds :
        label \in DOMAIN t /\ t[label].num /\ confidence >= t[label].v

\* the fallback model id of the configuration
ConfiguredFallback == GetOr(config.routing.fallback_model, DefaultFallback)

RuleBasedAsClaimed(query) ==
    LET cfg == config.classification
        hasAdvanced == \E kw \in cfg.advanced_keywords : Contains(kw, Lower(query))
        hasSimple == \E kw \in cfg.simple_keywords : Contains(kw, Lower(query))
        advancedLen == GetOr(cfg.query_length_thresholds.advanced, DefaultAdvancedLen)
        simpleLen == GetOr(cfg.query_length_thresholds.simple, DefaultSimpleLen)
    IN CASE hasAdvanced -> Result("advanced", 85)
         [] ~hasAdvanced /\ Len(query) > advancedLen -> Result("advanced", 70)
         [] ~hasAdvanced /\ ~(Len(query) > advancedLen)
            /\ hasSimple /\ Len(query) < simpleLen -> Result("simple", 90)
         [] OTHER -> Result("medium", 80)

\* C10 -- Rule-based classification: with no trained model, classify
\* returns (advanced, 0.85) if an advanced keyword occurs in the lowercased
\* query, else (advanced, 0.70) if the query is longer than the advanced
\* length threshold, else (simple, 0.90) if a simple keyword occurs and the
\* query is shorter than the simple length threshold, else (medium, 0.80).
C10_RuleBased ==
    (rbc.applied /\ ~rbc.trained) => rbc.out = RuleBasedAsClaimed(rbc.query)

\* a text with a simple keyword and no advanced one was classified
\* advanced for its length alone
C10_Witness ==
    /\ rbc.applied
    /\ ~rbc.trained
    /\ rbc.out = Result("advanced", 70)
    /\ \E kw \in config.classification.simple_keywords : Contains(kw, Lower(rbc.query))

\* C11 -- Classifier monotonicity: a query that contains a configured
\* advanced keyword, compared without regard to case, is never classified
\* simple, on the rule-based path and on the trained path.
C11_AdvancedKeywordNeverSimple ==
    (/\ rbc.applied
     /\ \E kw \in config.classification.advanced_keywords :
           Contains(Lower(kw), Lower(rbc.query)))
    => rbc.out.label # "simple"

\* place of key k in the access order
Position(order, k) == CHOOSE i \in 1..Len(order) : order[i] = k

\* C12 -- LRU eviction: a get that finds its entry and a set both make the
\* entry the most recently accessed one; entries leave the store only in a
\* set that takes it over its size budget, and every entry that leaves was
\* accessed less recently than every older entry that stays, whatever the
\* clock and the TTL say.
C12_LRUEviction ==
    [][RouteStep =>
         LET key == Lower(last'.query)
             hit == \E res \in last'.result : res.from_cache
             gone == DOMAIN cache \ DOMAIN cache'
         IN /\ hit => lru' = SelectSeq(lru, LAMBDA k : k # key) \o <<key>>
            /\ (last'.sets = 1 /\ key \in DOMAIN cache') => lru'[Len(lru')] = key
            /\ gone # {} =>
                  /\ last'.sets = 1
                  /\ Cardinality(DOMAIN cache \cup {key}) > config.caching.max_size
            /\ \A k \in gone, j \in DOMAIN cache' \ {key} :
                  Position(lru, k) < Position(lru, j)
            /\ {e.key : e \in last'.culled} = gone
    ]_vars

\* a set has culled an entry that was stored after an entry still in the
\* store and not yet past its TTL: the older one had been read since
C12_Witness ==
    /\ last.op = "route"
    /\ last.sets = 1
    /\ \E e \in last.culled, j \in DOMAIN cache :
          /\ cache[j].store_time < e.store_time
          /\ now - e.store_time < config.caching.ttl_seconds

\* every parallel call has returned or raised
AllReturned == \A t \in Threads : threads[t].pc = "done"

\* C13 -- Concurrent metrics updates are not lost: once all parallel route
\* calls on one Router have returned, total_queries has grown by the number
\* of calls, cache_hits by the number of calls that returned a cached
\* result, and the sum of model_usage by the number of calls that completed
\* a backend invocation.
C13_NoLostUpdates ==
    AllReturned =>
        /\ metrics["r1"].total_queries = Cardinality(Threads)
        /\ metrics["r1"].cache_hits =
              Cardinality({t \in Threads :
                              \E res \in threads[t].result : res.from_cache})
        /\ SumUsage(metrics["r1"]) =
              Cardinality({t \in Threads : threads[t].invoked})

\* the eight fields of a cache entry
EntryFields ==
    {"query", "model_used", "response", "speed_ms", "accuracy", "cost",
     "classification", "confidence"}

\* e is, field by field, what one parallel call built and wrote
WrittenByOneCall(e) ==
    /\ DOMAIN e = EntryFields
    /\ \E t \in Threads : threads[t].wrote > 0 /\ e \in threads[t].data

\* the calls that wrote the entry of key
Writers(key) == {t \in Threads : threads[t].wrote > 0 /\ Lower(threads[t].query) = key}

\* C14 -- Concurrent misses on the same query: in every interleaving a
\* cache get finds no entry or one whole entry whose eight fields come from
\* a single route call, every stored entry is such an entry, and once the
\* calls have finished an entry that several of them wrote is the one of
\* the call that wrote last.
C14_WholeEntries ==
    /\ \A k \in DOMAIN cache : WrittenByOneCall(cache[k].value)
    /\ \A t \in Threads :
          threads[t].pc \in {"hits_read", "hits_write"} =>
              /\ Cardinality(threads[t].data) = 1
              /\ \A e \in threads[t].data : WrittenByOneCall(e)
    /\ AllReturned =>
          \A k \in DOMAIN cache :
             \A t \in Writers(k) :
                (\A u \in Writers(k) : threads[u].wrote <= threads[t].wrote)
                => cache[k].value \in threads[t].data

\* both calls missed on the same key, both invoked the backend and got
\* different answers, and both have written and returned
C14_Witness ==
    /\ AllReturned
    /\ \A t \in Threads : threads[t].invoked /\ threads[t].wrote > 0
    /\ \E k \in DOMAIN cache : Writers(k) = Threads
    /\ \E t, u \in Threads :
          \E d \in threads[t].data, e \in threads[u].data : d.response # e.response

\* C15 -- clearCache frame: clear_cache removes every cache entry and
\* leaves total_queries, cache_hits, model_usage, total_cost and total_time
\* of every Router as they were; the first route call without force_model
\* after it is a cache miss, whatever the query.
C15_ClearFrame ==
    [][/\ (seq' = seq + 1 /\ last'.op = "clear_cache") =>
             /\ DOMAIN cache' = {}
             /\ metrics' = metrics
       /\ (RouteStep /\ last.op = "clear_cache" /\ ~last'.force.given) =>
             /\ last'.gets = 1
             /\ \A res \in last'.result : ~res.from_cache
             /\ metrics'[last'.router].cache_hits = metrics[last'.router].cache_hits
    ]_vars

\* clear_cache has just run on a Router that had served hits before: the
\* store is empty and the counters still show the earlier calls
C15_Witness ==
    /\ last.op = "clear_cache"
    /\ DOMAIN cache = {}
    /\ metrics[last.router].cache_hits >= 1
    /\ metrics[last.router].total_cost > 0

\* the fraction x is a / b, and 0 when b is 0; its denominator is not 0
RateIs(x, a, b) ==
    /\ x.den # 0
    /\ IF b = 0 THEN x.num = 0 ELSE x.num * b = a * x.den

C17_StatsNeverRaise ==
    last.op = "get_stats" =>
        /\ last.outcome = "ok"
        /\ last.result # {}
        /\ \A st \in last.result :
              /\ last.fails # {} => st.hit_rate.num = 0
              /\ (\A r \in Routers : metrics[r].total_queries = 0)
                 => st.hit_rate.num = 0

\* C18 -- Selector errors degrade to fallback: for every label, confidence
\* and routing configuration, also one whose confidence-threshold table is
\* missing or holds a value that cannot be compared, _select_model returns
\* the fallback model id and lets no error out.
C18_SelectorDegrades ==
    sel.applied =>
        /\ sel.out.error = "none"
        /\ (\/ config.routing.confidence_thresholds = {}
            \/ \E t \in config.routing.confidence_thresholds :
                  sel.label \in DOMAIN t /\ ~t[sel.label].num)
           => sel.out.model = ConfiguredFallback

\* C19 -- Stored entry shape and round trip: QueryCache.set(q, r) stores
\* the eight declared fields of r and drops every other field, from_cache
\* among them; a get(q) that follows returns those eight values; so no
\* cache entry ever has a from_cache field.
C19_EntryShape ==
    /\ \A k \in DOMAIN cache : DOMAIN cache[k].value = EntryFields
    /\ last.op = "set" =>
          \A r \in last.result :
             QueryCache_get(last.query) = {[f \in EntryFields |-> r[f]]}
    /\ last.op = "get" => \A v \in last.result : DOMAIN v = EntryFields

\* a dict with from_cache in it has been handed to set, and its key is in
\* the store
C19_Witness ==
    /\ last.op = "set"
    /\ \E r \in last.result : "from_cache" \in DOMAIN r
    /\ Lower(last.query) \in DOMAIN cache

\* the labels of a classification result
Labels == {"simple", "medium", "advanced"}

\* C20 -- Classification result range: every result of classify, with or
\* without a trained model and whatever the training data, has a label in
\* {simple, medium, advanced} and a confidence between 0 and 1; so has
\* every result of a route call without force_model and every cache entry.
C20_ResultRange ==
    /\ \A c \in last.classified :
          c.label \in Labels /\ c.confidence \in 0..100
    /\ (last.op = "route" /\ ~last.force.given) =>
          \A res \in last.result :
             res.classification \in Labels /\ res.confidence \in 0..100
    /\ \A k \in DOMAIN cache :
          /\ cache[k].value.classification \in Labels
          /\ cache[k].value.confidence \in 0..100

\* C21 -- Forced routing result: a route call with a configured
\* force_model that returns has called neither the classifier nor the
\* selector, has invoked the backend once, with that model, and returns
\* model_used = force_model, classification 'forced', confidence 1.0,
\* from_cache = FALSE and the cost configured for that model.
C21_ForcedResult ==
    (/\ last.op = "route"
     /\ last.force.given
     /\ last.force.id \in DOMAIN config.models
     /\ last.outcome = "ok")
    => /\ last.classified = {}
       /\ last.selected = {}
       /\ last.backend = <<[model |-> last.force.id, ok |-> TRUE]>>
       /\ Cardinality(last.result) = 1
       /\ \A res \in last.result :
             /\ res.model_used = last.force.id
             /\ res.classification = "forced"
             /\ res.confidence = 100
             /\ res.from_cache = FALSE
             /\ res.cost = config.models[last.force.id].cost

\* a forced call on the most expensive model has returned
C21_Witness ==
    /\ last.op = "route"
    /\ last.force = Some("gpt2-large")
    /\ last.outcome = "ok"
    /\ \E res \in last.result : res.cost > 0

\* C22 -- Missing config for the selected model: a route call without
\* force_model that misses the cache and whose selected model id is no key
\* of config['models'] ends in an error for the caller; the backend is not
\* invoked, the cache is not written, and model_usage, total_cost and
\* total_time stay as they were.
C22_MissingModelConfig ==
    [][(/\ RouteStep
        /\ ~last'.force.given
        /\ last'.gets = 1
        /\ \E m \in last'.selected : m \notin DOMAIN config.models)
       => /\ last'.outcome # "ok"
          /\ last'.result = {}
          /\ last'.backend = <<>>
          /\ last'.sets = 0
          /\ cache' = cache
          /\ \A r \in Routers :
                /\ metrics'[r].model_usage = metrics[r].model_usage
                /\ metrics'[r].total_cost = metrics[r].total_cost
                /\ metrics'[r].total_time = metrics[r].total_time
    ]_vars

\* a call has failed on a selected model without configuration, on a
\* Router that had routed another query to a configured model before
C22_Witness ==
    /\ last.op = "route"
    /\ last.outcome = "KeyError"
    /\ \E m \in last.selected : m \notin DOMAIN config.models
    /\ SumUsage(metrics[last.router]) >= 1
    /\ DOMAIN cache # {}

\* C23 -- Non-hit accounting invariant: after any sequence of route calls
\* (returning or failing, with or without force_model), clear_cache and
\* get_metrics calls, the model_usage counts of a Router sum to its
\* total_queries - cache_hits.
C23_NonHitAccounting ==
    \A r \in Routers :
        SumUsage(metrics[r]) = metrics[r].total_queries - metrics[r].cache_hits

\* C24 -- Result echoes the caller's query: the RoutingResult of every
\* route call that returns has as its query the text passed to that call,
\* also when the call is a hit on an entry stored under another casing.
C24_ResultEchoesQuery ==
    (last.op = "route" /\ last.outcome = "ok")
    => \A res \in last.result : res.query = last.query

\* C25 -- Hit-count bound: in every reachable state, with calls made one
\* after the other and with calls running in parallel, every Router has
\* 0 <= cache_hits <= total_queries.
C25_HitBound ==
    \A r \in Routers :
        /\ 0 <= metrics[r].cache_hits
        /\ metrics[r].cache_hits <= metrics[r].total_queries

\* C26 -- Metrics snapshot isolation: the dict get_metrics returned stays
\* as it was returned; no later route_query, clear_cache or get_metrics
\* call changes a counter in it, the per-model model_usage counts
\* included.
C26_SnapshotIsolation ==
    held.taken => Observed(held) = held.returned

\* C27 -- Cache ownership: a newly constructed Router starts with an
\* empty cache, and a route_query or clear_cache call on one Router leaves
\* unchanged, for every other Router and every query, whether a route call
\* there would be a cache hit.
C27_CacheOwnership ==
    [][/\ (seq' = seq + 1 /\ last'.op = "__init__") =>
             \A q \in Queries : ~WouldHit(last'.router, q)'
       /\ (seq' = seq + 1 /\ last'.op \in {"route", "clear_cache"}) =>
             \A r \in Routers \ {last'.router} :
                \A q \in Queries : WouldHit(r, q)' = WouldHit(r, q)
    ]_vars

====
